---- MODULE Spec2Model ----
(***************************************************************************)
(* Model of sync_elba_counterparties.py: one pass of main() after another  *)
(* against a source (Elba) whose data and endpoint behaviour are fixed and *)
(* a destination (Bitrix24) whose state persists between passes.           *)
(*                                                                         *)
(* Every HTTP attempt is one step.  A destination attempt ends in one of   *)
(* five ways (WriteOutcomes);   a source GET answers as the source data    *)
(* says.  Strings model Python strings, "" models a missing or empty       *)
(* value (both are falsy in the `a or b` chains of the code); a person's   *)
(* full name is the sequence of its characters.  Of a record the fields    *)
(* that take part in identity, linkage and naming are carried:             *)
(* UF_CRM_ELBA_ID, COMPANY_ID, LAST_NAME, NAME, SECOND_NAME.               *)
(*                                                                         *)
(* Spec       passes of main() over small sources, destination calls fail  *)
(* SpecFetch  get_elba_counterparties over listings of several pages       *)
(* SpecFind   the company lookup over key lists of several chunks          *)
(* SpecIds    passes of main() over ids that contain the key separator     *)
(* SpecNames  the person loop over full names of any shape                 *)
(***************************************************************************)
EXTENDS Integers, Sequences, FiniteSets, TLC

(* ------------------------------ bounds -------------------------------- *)
\* passes of main() in one behaviour
MaxRuns == 2
\* bitrix_call invocations per behaviour in which some attempt fails
MaxFaultyCalls == 1
\* characters of a person's full name
MaxNameLen == 7

(* -------------------------- program constants ------------------------- *)
\* stop_after_attempt(3)
MaxAttempts == 3
\* {"limit": 100} passed to fetch_all_paginated
PageLimit == 100
\* chunked(elba_ids, 50)
ChunkSize == 50
\* number of candidate endpoints of a listing
NumCandidates == 4

(* ------------------------------ helpers ------------------------------- *)
Min(a, b) == IF a < b THEN a ELSE b

\* Python `a or b` on strings
Or(a, b) == IF a # "" THEN a ELSE b

EmptyMap == [k \in {} |-> ""]

Last(s) == s[Len(s)]

\* a variant whose full slices stop one element early
chunkedShort(iterable, size) ==
    [n \in 1..((Len(iterable) + size - 1) \div size) |->
        SubSeq(iterable, (n - 1) * size + 1, Min(n * size - 1, Len(iterable)))]

\* chunked(iterable, size): consecutive slices of at most `size` elements
chunked(iterable, size) ==
    [n \in 1..((Len(iterable) + size - 1) \div size) |->
        SubSeq(iterable, (n - 1) * size + 1, Min(n * size, Len(iterable)))]

\* [x for x in seq if x]
Truthy(x) == x # ""
FilterNonEmpty(seq) == SelectSeq(seq, Truthy)

\* str(...) of a number
Str(n) == ToString(n)

(* ------------------------------- names -------------------------------- *)
\* A name is the sequence of its characters, <<>> the empty string.
\* the characters str.split() splits on
Whitespace == {" ", "\t"}

\* a variant that splits on the space alone
IsSpaceOnly(ch) == ch = " "

\* str.isspace() of one character
IsSpace(ch) == ch \in Whitespace

\* str.split(): the text is scanned from the left, whitespace ends the word
\* in progress, and the words that are not empty are the parts
RECURSIVE SplitFrom(_, _, _, _)
SplitFrom(text, pos, word, parts) ==
    IF pos > Len(text)
    THEN IF word = <<>> THEN parts ELSE Append(parts, word)
    ELSE IF IsSpace(text[pos])
    THEN SplitFrom(text, pos + 1, <<>>,
                   IF word = <<>> THEN parts ELSE Append(parts, word))
    ELSE SplitFrom(text, pos + 1, Append(word, text[pos]), parts)

split(text) == SplitFrom(text, 1, <<>>, <<>>)

\* extract_name_parts(full_name): <<last_name, first_name, second_name>>
extract_name_parts(full_name) ==
    IF full_name = <<>> THEN <<<<>>, <<>>, <<>>>>
    ELSE LET parts == split(full_name) IN
         <<IF Len(parts) > 0 THEN parts[1] ELSE <<>>,
           IF Len(parts) > 1 THEN parts[2] ELSE <<>>,
           IF Len(parts) > 2 THEN parts[3] ELSE <<>>>>

(* ---------------------------- source records -------------------------- *)
\* a contact person as the source returns it, with its name under fullName
NamedPerson(id, personId, fullName) ==
    [id |-> id, personId |-> personId, fullName |-> fullName]

\* a contact person without a name
Person(id, personId) == NamedPerson(id, personId, <<>>)

\* a counterparty as the source returns it; the three inline person lists
\* are <<>> when the key is missing
Counterparty(id, counterpartyId, contractorId, contacts, contactPersons, persons) ==
    [id |-> id, counterpartyId |-> counterpartyId, contractorId |-> contractorId,
     contacts |-> contacts, contactPersons |-> contactPersons, persons |-> persons]

\* str(cp.get("id") or cp.get("counterpartyId") or cp.get("contractorId") or "")
CpElbaId(cp) == Or(cp.id, Or(cp.counterpartyId, Or(cp.contractorId, "")))

\* str(person.get("id") or person.get("personId") or "")
PersonElbaId(person) == Or(person.id, Or(person.personId, ""))

\* f"{cp_elba_id}:{pid}"
Uniq(cp_elba_id, pid) == cp_elba_id \o ":" \o pid

\* the identity field of map_company_fields_from_cp
map_company_fields_from_cp(cp) == [UF_CRM_ELBA_ID |-> CpElbaId(cp)]

\* person.get("fullName") or ... or f"Kontakt {person.get('id') or ''}": the
\* name, or the word of the fallback, a space and the id (each written as
\* one element)
FullName(person) ==
    IF person.fullName # <<>> THEN person.fullName
    ELSE <<"Kontakt", " ">> \o (IF person.id = "" THEN <<>> ELSE <<person.id>>)

\* the name fields and the identity field of map_contact_fields_from_person:
\* the person part of the key is person.get('id') alone
map_contact_fields_from_person(person, cp) ==
    LET names == extract_name_parts(FullName(person)) IN
    [LAST_NAME |-> names[1], NAME |-> names[2], SECOND_NAME |-> names[3],
     UF_CRM_ELBA_ID |-> CpElbaId(cp) \o ":" \o Or(person.id, "")]

\* for key in ("contacts", "contactPersons", "persons"): first non-empty list
InlinePersons(cp) ==
    IF cp.contacts # <<>> THEN cp.contacts
    ELSE IF cp.contactPersons # <<>> THEN cp.contactPersons
    ELSE cp.persons

(* --------------------------- the source (Elba) ------------------------ *)
\* One candidate URL of a listing.  `key` is the top-level key of the JSON
\* object that holds the list ("" for a body that is a bare JSON array);
\* `items` is the whole listing behind the URL; the failAt-th page request
\* (0: none) raises failKind ("HTTPError" for an error status from
\* raise_for_status, "ConnectionError" for a transport error).
Endpoint(key, items, failAt, failKind) ==
    [key |-> key, items |-> items, failAt |-> failAt, failKind |-> failKind]

NotFound == Endpoint("items", <<>>, 1, "HTTPError")
Unreachable == Endpoint("items", <<>>, 1, "ConnectionError")
Listing(key, items) == Endpoint(key, items, 0, "")
AllNotFound == <<NotFound, NotFound, NotFound, NotFound>>

\* GET /organizations
Organizations(key, orgs, failKind) == [key |-> key, orgs |-> orgs, failKind |-> failKind]
OneOrg == Organizations("organizations", <<[id |-> "org1", organizationId |-> ""]>>, "")

NoInline(id, counterpartyId, contractorId) ==
    Counterparty(id, counterpartyId, contractorId, <<>>, <<>>, <<>>)

\* a and b have distinct ids; a carries two inline persons, the second with
\* its id under personId; b's person is behind the second contacts URL and
\* has the same person id as a's first
SrcMixed ==
    [organizations |-> OneOrg,
     counterparties |-> <<NotFound,
        Listing("counterparties",
          <<Counterparty("a", "", "", <<Person("1", ""), Person("", "2")>>, <<>>, <<>>),
            NoInline("", "b", "")>>),
        NotFound, NotFound>>,
     contacts |-> [id \in {"b"} |->
        <<NotFound, Listing("contacts", <<Person("1", "")>>), NotFound, NotFound>>]]

\* the same external id twice in the batch, the same person id twice in a
\* list; only the last candidate URL answers
SrcDuplicates ==
    [organizations |-> OneOrg,
     counterparties |-> <<NotFound, NotFound, NotFound,
        Listing("items",
          <<Counterparty("a", "", "", <<Person("1", ""), Person("1", "")>>, <<>>, <<>>),
            Counterparty("a", "", "", <<>>, <<>>, <<Person("1", "")>>)>>)>>,
     contacts |-> EmptyMap]

\* a record without any id that carries a person, then one with a
\* contractorId and no persons
SrcNoId ==
    [organizations |-> Organizations("items", <<[id |-> "", organizationId |-> "org2"]>>, ""),
     counterparties |-> <<Unreachable, Listing("other", <<NoInline("x", "", "")>>),
        Listing("contractors",
          <<Counterparty("", "", "", <<Person("9", "")>>, <<>>, <<>>),
            NoInline("", "", "c")>>),
        NotFound>>,
     contacts |-> [id \in {"c"} |->
        <<NotFound, Unreachable, Listing("items", <<>>), NotFound>>]]

\* unique ids everywhere, every person id under `id`
SrcClean ==
    [organizations |-> OneOrg,
     counterparties |-> <<
        Listing("items",
          <<Counterparty("a", "", "", <<>>, <<Person("1", "")>>, <<>>),
            NoInline("b", "", "")>>),
        NotFound, NotFound, NotFound>>,
     contacts |-> [id \in {"b"} |->
        <<Listing("items", <<Person("1", ""), Person("2", "")>>),
          NotFound, NotFound, NotFound>>]]

\* the credential has no organization
SrcNoOrg ==
    [organizations |-> Organizations("organizations", <<>>, ""),
     counterparties |-> AllNotFound, contacts |-> EmptyMap]

\* GET /organizations fails
SrcOrgFails ==
    [organizations |-> Organizations("organizations", <<>>, "HTTPError"),
     counterparties |-> AllNotFound, contacts |-> EmptyMap]

\* no candidate URL yields a counterparty
SrcEmpty ==
    [organizations |-> OneOrg,
     counterparties |-> <<NotFound, Listing("items", <<>>), Unreachable, NotFound>>,
     contacts |-> EmptyMap]

\* The state names the source it runs against; SourceData gives its content.
Sources ==
    {[name |-> x, shapes |-> <<>>] :
        x \in {"mixed", "duplicates", "no_id", "clean", "no_org", "org_fails", "empty"}}

NamedSource(name) ==
    CASE name = "mixed" -> SrcMixed
      [] name = "duplicates" -> SrcDuplicates
      [] name = "no_id" -> SrcNoId
      [] name = "clean" -> SrcClean
      [] name = "no_org" -> SrcNoOrg
      [] name = "org_fails" -> SrcOrgFails
      [] name = "empty" -> SrcEmpty

\* -- long listings, for get_elba_counterparties alone --
\* a listing of n counterparties with the ids "1" .. "n"
LongListing(n) == [k \in 1..n |-> NoInline(Str(k), "", "")]

\* what a candidate URL may do: fail at once, be empty, hold fewer items than
\* a page, a whole number of pages, several pages, and fail on a later page
Shape(name) ==
    CASE name = "not_found" -> NotFound
      [] name = "unreachable" -> Unreachable
      [] name = "empty" -> Listing("items", <<>>)
      [] name = "other_key" -> Listing("other", LongListing(2))
      [] name = "bare_array" -> Listing("", LongListing(2))
      [] name = "100" -> Listing("contractors", LongListing(100))
      [] name = "150_fails_page_2" ->
            Endpoint("counterparties", LongListing(150), 2, "ConnectionError")
      [] name = "250_fails_page_3" -> Endpoint("items", LongListing(250), 3, "HTTPError")
      [] name = "250" -> Listing("items", LongListing(250))
      [] name = "101_fails_page_2" -> Endpoint("items", LongListing(101), 2, "HTTPError")
      [] name = "no_ids" -> Listing("items", <<NoInline("", "", ""), NoInline("", "", "")>>)
      [] name = "1" -> Listing("items", LongListing(1))
      [] name = "50" -> Listing("items", LongListing(50))
      [] name = "51" -> Listing("items", LongListing(51))
      [] name = "120" -> Listing("items", LongListing(120))

FirstShapes ==
    {"not_found", "unreachable", "empty", "other_key", "bare_array", "100",
     "150_fails_page_2", "250_fails_page_3"}
LaterShapes == {"not_found", "250", "101_fails_page_2"}

FetchSources ==
    {[name |-> "long", shapes |-> <<e1, e2, e3, e4>>] :
        e1 \in FirstShapes, e2 \in FirstShapes, e3 \in LaterShapes, e4 \in LaterShapes}

\* listings whose number of ids is none, one, a whole chunk of the company
\* lookup, one more than a chunk, and more than two chunks
FindShapes == {"no_ids", "1", "50", "51", "120"}
FindSources ==
    {[name |-> "long", shapes |-> <<e1, "not_found", "not_found", "not_found">>] :
        e1 \in FindShapes}

\* -- ids of any characters --
\* external ids as the source may send them: any string, the separator of
\* the composite key included
CpIds == {"a", "b", "a:b"}
PersonIds == {"c", "b:c"}

\* two counterparties with different ids: the first carries its person
\* inline, the person of the second is behind its first contacts URL
KeySources ==
    {s \in {[name |-> "ids", shapes |-> <<x1, p1, x2, p2>>] :
                x1 \in CpIds, p1 \in PersonIds, x2 \in CpIds, p2 \in PersonIds} :
        s.shapes[1] # s.shapes[3]}

SrcIds(x1, p1, x2, p2) ==
    [organizations |-> OneOrg,
     counterparties |-> <<
        Listing("items",
          <<Counterparty(x1, "", "", <<Person(p1, "")>>, <<>>, <<>>),
            NoInline(x2, "", "")>>),
        NotFound, NotFound, NotFound>>,
     contacts |-> [id \in {x2} |->
        <<Listing("items", <<Person(p2, "")>>), NotFound, NotFound, NotFound>>]]

\* -- names --
\* the full names a person may carry: every text of a letter, the space and
\* the tab up to MaxNameLen characters
NameChars == {"x", " ", "\t"}
Names == UNION {[1..n -> NameChars] : n \in 0..MaxNameLen}
NameSources == {[name |-> "names", shapes |-> full_name] : full_name \in Names}

\* one counterparty whose card carries one person with the given name
SrcNames(full_name) ==
    [organizations |-> OneOrg,
     counterparties |-> <<
        Listing("items",
          <<Counterparty("a", "", "", <<NamedPerson("1", "", full_name)>>, <<>>, <<>>)>>),
        NotFound, NotFound, NotFound>>,
     contacts |-> EmptyMap]

\* the content of the source a state names
SourceData(src) ==
    IF src.name = "long"
    THEN [organizations |-> OneOrg,
          counterparties |-> [n \in 1..NumCandidates |-> Shape(src.shapes[n])],
          contacts |-> EmptyMap]
    ELSE IF src.name = "ids"
    THEN SrcIds(src.shapes[1], src.shapes[2], src.shapes[3], src.shapes[4])
    ELSE IF src.name = "names"
    THEN SrcNames(src.shapes)
    ELSE NamedSource(src.name)

\* the candidate URLs of one counterparty's contact listing
ContactEndpoints(src, cp_elba_id) ==
    IF cp_elba_id \in DOMAIN src.contacts THEN src.contacts[cp_elba_id] ELSE AllNotFound

\* The source's answer to GET url?skip=..&limit=..: an exception, or the
\* slice of the listing (a backend that honours skip and limit).
GetPage(e, skip, limit) ==
    IF e.failAt = (skip \div limit) + 1
    THEN [exc |-> e.failKind, key |-> "", list |-> <<>>]
    ELSE [exc |-> "", key |-> e.key,
          list |-> SubSeq(e.items, skip + 1, Min(skip + limit, Len(e.items)))]

\* fetch_all_paginated, the body of the try: `data = resp.json() or {}`, the
\* search of item_keys, the bare-array fallback.  A non-empty bare array
\* has no .get: the key search raises AttributeError.
ParseBatch(resp, item_keys) ==
    IF resp.exc # "" THEN [exc |-> resp.exc, batch |-> <<>>]
    ELSE IF resp.key = "" /\ resp.list # <<>> /\ item_keys # <<>>
         THEN [exc |-> "AttributeError", batch |-> <<>>]
    ELSE IF \E n \in 1..Len(item_keys) : item_keys[n] = resp.key
         THEN [exc |-> "", batch |-> resp.list]
    ELSE IF resp.key = "" THEN [exc |-> "", batch |-> resp.list]
    ELSE [exc |-> "", batch |-> <<>>]

\* a variant that throws the pages read so far away when a request fails
FetchPageDropping(e, skip, items, limit, item_keys) ==
    LET parsed == ParseBatch(GetPage(e, skip, limit), item_keys) IN
    IF parsed.exc # ""
    THEN [items |-> <<>>, more |-> FALSE, exc |-> parsed.exc]
    ELSE [items |-> items \o parsed.batch,
          more |-> ~(Len(parsed.batch) < limit), exc |-> ""]

\* a variant that goes on until a page comes back empty
FetchPageUntilEmpty(e, skip, items, limit, item_keys) ==
    LET parsed == ParseBatch(GetPage(e, skip, limit), item_keys) IN
    IF parsed.exc # ""
    THEN [items |-> items, more |-> FALSE, exc |-> parsed.exc]
    ELSE [items |-> items \o parsed.batch,
          more |-> parsed.batch # <<>>, exc |-> ""]

\* One pass of the `while True` loop of fetch_all_paginated: the items after
\* it, whether the loop goes on, and the exception it caught ("" if none).
FetchPage(e, skip, items, limit, item_keys) ==
    LET parsed == ParseBatch(GetPage(e, skip, limit), item_keys) IN
    IF parsed.exc # ""
    THEN [items |-> items, more |-> FALSE, exc |-> parsed.exc]
    ELSE [items |-> items \o parsed.batch,
          more |-> ~(Len(parsed.batch) < limit), exc |-> ""]

\* a variant that takes whatever the first candidate URL returned
YieldsAlways(list) == TRUE

\* `if items:` / `if contacts:` of the candidate loops: the candidate URL is
\* accepted when fetch_all_paginated returned at least one item
Yields(list) == list # <<>>

ItemKeysCounterparties == <<"items", "counterparties", "contractors">>
ItemKeysContacts == <<"items", "contacts">>

(* ------------------------ the destination (Bitrix24) ------------------ *)
\* the three custom fields ensure_userfields looks for, in its order
UserFields ==
    <<[entity |-> "contact", name |-> "UF_CRM_ELBA_ID"],
      [entity |-> "company", name |-> "UF_CRM_ELBA_ID"],
      [entity |-> "company", name |-> "UF_CRM_INN"]>>

\* A destination record's id is its position in the table.
\* the keys of `group` that some record of the table carries
KeysFound(table, group) ==
    {table[n].UF_CRM_ELBA_ID : n \in {m \in 1..Len(table) :
        /\ table[m].UF_CRM_ELBA_ID # ""
        /\ \E x \in 1..Len(group) : group[x] = table[m].UF_CRM_ELBA_ID}}

\* crm.<entity>.list filtered by UF_CRM_ELBA_ID, folded by
\* `result[key] = str(row.get("ID"))`: rows come in id order, the last wins
RowsAsMap(table, group) ==
    [k \in KeysFound(table, group) |->
        Str(CHOOSE n \in 1..Len(table) :
              /\ table[n].UF_CRM_ELBA_ID = k
              /\ \A m \in 1..Len(table) : table[m].UF_CRM_ELBA_ID = k => m <= n)]

\* result.update(...) of one chunk
Merge(result, rows) ==
    [k \in DOMAIN result \cup DOMAIN rows |->
        IF k \in DOMAIN rows THEN rows[k] ELSE result[k]]

(* ------------------------------ bitrix_call --------------------------- *)
\* How one HTTP attempt of bitrix_call can end:
\*   ok               2xx, {"result": ...}
\*   error_200        2xx, {"error": ...}
\*   error_400        4xx/5xx status, body {"error": ...}
\*   ConnectionError  requests.post raises before the request is delivered
\*   ReadTimeout      the destination applied the request, the response is lost
WriteOutcomes == {"ok", "error_200", "error_400", "ConnectionError", "ReadTimeout"}
\* a lost response of a read changes nothing at the destination
ReadOutcomes == WriteOutcomes \ {"ReadTimeout"}

\* the exception one pass through the body of bitrix_call raises ("" if none)
Raised(outcome) ==
    CASE outcome = "ok" -> ""
      [] outcome = "error_400" -> "HTTPError"
      [] outcome = "error_200" -> "RuntimeError"
      [] OTHER -> outcome

\* a variant that retries error statuses only
RetryIfStatusOnly(exc) == exc = "HTTPError"

\* retry_if_exception_type((requests.exceptions.RequestException,))
RetryIf(exc) == exc \in {"HTTPError", "ConnectionError", "ReadTimeout"}

\* what tenacity does after attempt number `n` ended with `outcome`
Control(outcome, n) ==
    IF Raised(outcome) = "" THEN "return"
    ELSE IF RetryIf(Raised(outcome)) /\ n < MaxAttempts THEN "retry"
    ELSE "raise"

\* whether the destination carried the request out
Applied(outcome) == outcome \in {"ok", "ReadTimeout"}

(* ------------------------------- state -------------------------------- *)
VARIABLES
    source,             \* which source the passes run against (fixed)
    userfields,         \* destination: the custom fields that exist
    companies,          \* destination: company records, id = position
    contacts,           \* destination: contact records, id = position
    runs,               \* the passes of main() that have ended
    pc,                 \* where main() is
    attempt,            \* attempt number of the bitrix_call in progress
    ufIdx,              \* ensure_userfields: which of UserFields
    org_id,
    ep, skip, items,    \* candidate URL, and fetch_all_paginated's locals
    counterparties,
    elba_ids, g, result,    \* find_existing_by_elba_ids: keys, chunk, mapping
    existing_companies,
    i,                  \* position in `for cp in counterparties`
    company_id,
    persons,
    existing_contacts,
    j,                  \* position in `for person in persons`
    faults,             \* bitrix_call invocations that have seen a failure
    warnings,           \* "skip" warnings logged in this pass
    bitrixLog,          \* this pass's HTTP attempts at the destination
    elbaLog             \* this pass's GET requests at the source

destVars == <<userfields, companies, contacts>>
fetchVars == <<ep, skip, items>>
findVars == <<elba_ids, g, result>>
loopVars == <<i, company_id, persons, existing_contacts, j>>
vars == <<source, userfields, companies, contacts, runs, pc, attempt, ufIdx, org_id,
          ep, skip, items, counterparties, elba_ids, g, result, existing_companies,
          i, company_id, persons, existing_contacts, j, faults, warnings,
          bitrixLog, elbaLog>>

Src == SourceData(source)

\* the locals of main() at its entry
Entry ==
    /\ pc = "uf_list" /\ attempt = 1 /\ ufIdx = 1 /\ org_id = ""
    /\ ep = 1 /\ skip = 0 /\ items = <<>> /\ counterparties = <<>>
    /\ elba_ids = <<>> /\ g = 1 /\ result = EmptyMap
    /\ existing_companies = EmptyMap /\ i = 1 /\ company_id = ""
    /\ persons = <<>> /\ existing_contacts = EmptyMap /\ j = 1
    /\ warnings = 0 /\ bitrixLog = <<>> /\ elbaLog = <<>>

\* a destination without records; its custom fields may exist already
InitialUserFields == {{}, {UserFields[1]}, {UserFields[1], UserFields[2], UserFields[3]}}

Init ==
    /\ source \in Sources
    /\ userfields \in InitialUserFields
    /\ companies = <<>> /\ contacts = <<>>
    /\ runs = <<>> /\ faults = 0
    /\ Entry

(* ------------------------- logging of requests ------------------------ *)
\* one HTTP attempt at the destination; the fields a method does not use
\* stay empty
Attempt(method, outcome) ==
    [method |-> method, attempt |-> attempt, outcome |-> outcome,
     key |-> "", parent |-> "", company_id |-> "", group |-> <<>>,
     id |-> "", found |-> EmptyMap]

\* one GET at the source: the listing and candidate URL, the offset, the
\* exception it ended in ("" if none) and the number of items it yielded
Get(listing, cp_elba_id, candidate, offset, exc, got) ==
    [listing |-> listing, cp |-> cp_elba_id, ep |-> candidate, skip |-> offset,
     exc |-> exc, got |-> got]

\* The calls in which an attempt fails are drawn from a bounded supply; a
\* call that has failed once (attempt > 1) may fail again, in the way its
\* attempt before did.
Charge(outcome) ==
    /\ \/ outcome = "ok"
       \/ attempt = 1 /\ faults < MaxFaultyCalls
       \/ attempt > 1 /\ outcome = Last(bitrixLog).outcome
    /\ faults' = IF outcome # "ok" /\ attempt = 1 THEN faults + 1 ELSE faults

\* bitrix_call did not return: tenacity calls again, or the exception
\* leaves bitrix_call and unwinds main()
RetryOrRaise(outcome) ==
    /\ Control(outcome, attempt) # "return"
    /\ IF Control(outcome, attempt) = "retry"
       THEN pc' = pc /\ attempt' = attempt + 1
       ELSE pc' = "aborted" /\ attempt' = attempt

(* --------------------------- ensure_userfields ------------------------ *)
\* a variant that goes on to the source after the first field
NextAfterFieldEarly(idx) == [pc |-> "org", ufIdx |-> idx]

\* where ensure_userfields goes once field number idx exists: the check of
\* the next field, or back in main() the call of get_organization_id
NextAfterField(idx) ==
    IF idx < Len(UserFields)
    THEN [pc |-> "uf_list", ufIdx |-> idx + 1]
    ELSE [pc |-> "org", ufIdx |-> idx]

\* bitrix_call("crm.<entity>.userfield.list", ...) and the `if not any(...)`
UserfieldList ==
    /\ pc = "uf_list"
    /\ LET f == UserFields[ufIdx] IN
       \E o \in ReadOutcomes :
         /\ Charge(o)
         /\ bitrixLog' = Append(bitrixLog,
               [Attempt("crm." \o f.entity \o ".userfield.list", o) EXCEPT !.key = f.name])
         /\ IF Control(o, attempt) = "return"
            THEN /\ attempt' = 1
                 /\ IF f \notin userfields
                    THEN pc' = "uf_add" /\ ufIdx' = ufIdx
                    ELSE /\ pc' = NextAfterField(ufIdx).pc
                         /\ ufIdx' = NextAfterField(ufIdx).ufIdx
            ELSE RetryOrRaise(o) /\ ufIdx' = ufIdx
    /\ UNCHANGED <<source, destVars, runs, org_id, fetchVars, counterparties, findVars,
                   existing_companies, loopVars, warnings, elbaLog>>

\* create_bitrix_userfield; the destination rejects a field that exists
UserfieldAdd ==
    /\ pc = "uf_add"
    /\ LET f == UserFields[ufIdx] IN
       \E o \in WriteOutcomes :
         /\ IF f \in userfields
            THEN o = "error_400" /\ faults' = faults
            ELSE Charge(o)
         /\ bitrixLog' = Append(bitrixLog,
               [Attempt("crm." \o f.entity \o ".userfield.add", o) EXCEPT !.key = f.name])
         /\ userfields' = IF Applied(o) THEN userfields \cup {f} ELSE userfields
         /\ IF Control(o, attempt) = "return"
            THEN /\ attempt' = 1
                 /\ pc' = NextAfterField(ufIdx).pc
                 /\ ufIdx' = NextAfterField(ufIdx).ufIdx
            ELSE RetryOrRaise(o) /\ ufIdx' = ufIdx
    /\ UNCHANGED <<source, companies, contacts, runs, org_id, fetchVars, counterparties,
                   findVars, existing_companies, loopVars, warnings, elbaLog>>

(* --------------------------- get_organization_id ---------------------- *)
\* data.get("organizations") or data.get("items") or []
OrgsOf(o) == IF o.key \in {"organizations", "items"} THEN o.orgs ELSE <<>>

\* a variant without the `if not orgs: raise`: an empty list goes on with
\* no organization id
GetOrganizationIdLenient ==
    /\ pc = "org"
    /\ LET o == Src.organizations IN
       /\ elbaLog' = Append(elbaLog, Get("organizations", "", 0, 0, o.failKind,
                                    IF o.failKind # "" THEN 0 ELSE Len(OrgsOf(o))))
       /\ IF o.failKind # ""
          THEN pc' = "aborted" /\ UNCHANGED <<org_id, fetchVars>>
          ELSE /\ org_id' = IF OrgsOf(o) = <<>> THEN ""
                            ELSE Or(OrgsOf(o)[1].id, OrgsOf(o)[1].organizationId)
               /\ pc' = "cps" /\ ep' = 1 /\ skip' = 0 /\ items' = <<>>
    /\ UNCHANGED <<source, destVars, runs, attempt, ufIdx, counterparties, findVars,
                   existing_companies, loopVars, faults, warnings, bitrixLog>>

\* get_organization_id: any exception is logged and raised again, and
\* unwinds main()
GetOrganizationId ==
    /\ pc = "org"
    /\ LET o == Src.organizations IN
       /\ elbaLog' = Append(elbaLog, Get("organizations", "", 0, 0, o.failKind,
                                    IF o.failKind # "" THEN 0 ELSE Len(OrgsOf(o))))
       /\ IF o.failKind # "" \/ OrgsOf(o) = <<>>
          THEN pc' = "aborted" /\ UNCHANGED <<org_id, fetchVars>>
          ELSE /\ org_id' = Or(OrgsOf(o)[1].id, OrgsOf(o)[1].organizationId)
               /\ pc' = "cps" /\ ep' = 1 /\ skip' = 0 /\ items' = <<>>
    /\ UNCHANGED <<source, destVars, runs, attempt, ufIdx, counterparties, findVars,
                   existing_companies, loopVars, faults, warnings, bitrixLog>>

(* ------------------------- find_existing_by_elba_ids ------------------ *)
\* The call find_existing_by_elba_ids(entity, ids): `if not elba_ids: return {}`
\* makes no destination call; otherwise the chunks are looked up one by one.
\* kind is "companies" or "contacts".
StartFind(kind, ids) ==
    /\ elba_ids' = ids /\ g' = 1 /\ result' = EmptyMap /\ attempt' = 1
    /\ IF ids = <<>>
       THEN /\ pc' = IF kind = "companies" THEN "loop" ELSE "person_loop"
            /\ IF kind = "companies"
               THEN existing_companies' = EmptyMap /\ UNCHANGED existing_contacts
               ELSE existing_contacts' = EmptyMap /\ UNCHANGED existing_companies
       ELSE /\ pc' = IF kind = "companies" THEN "find_companies" ELSE "find_contacts"
            /\ UNCHANGED <<existing_companies, existing_contacts>>

\* [str(...) for cp in counterparties], then `if eid`
CompanyElbaIds(cps) == FilterNonEmpty([n \in 1..Len(cps) |-> CpElbaId(cps[n])])

(* --------------------------- get_elba_counterparties ------------------ *)
\* one GET of fetch_all_paginated under get_elba_counterparties, and what
\* follows it up to the next request
FetchCounterpartiesPage ==
    /\ pc = "cps"
    /\ LET r == FetchPage(Src.counterparties[ep], skip, items, PageLimit,
                          ItemKeysCounterparties) IN
       /\ elbaLog' = Append(elbaLog, Get("counterparties", "", ep, skip, r.exc,
                                    Len(r.items) - Len(items)))
       /\ IF r.more
          THEN /\ items' = r.items /\ skip' = skip + PageLimit
               /\ UNCHANGED <<pc, ep, counterparties, findVars, existing_companies,
                              existing_contacts, attempt, i>>
          ELSE IF Yields(r.items)
          THEN /\ items' = r.items /\ counterparties' = r.items /\ i' = 1
               /\ StartFind("companies", CompanyElbaIds(r.items))
               /\ UNCHANGED <<ep, skip>>
          ELSE IF ep < NumCandidates
          THEN /\ ep' = ep + 1 /\ skip' = 0 /\ items' = <<>>
               /\ UNCHANGED <<pc, counterparties, findVars, existing_companies,
                              existing_contacts, attempt, i>>
          ELSE /\ counterparties' = <<>> /\ pc' = "done" /\ items' = r.items
               /\ UNCHANGED <<ep, skip, findVars, existing_companies,
                              existing_contacts, attempt, i>>
    /\ UNCHANGED <<source, destVars, runs, ufIdx, org_id, company_id, persons, j,
                   faults, warnings, bitrixLog>>

\* one chunk of find_existing_by_elba_ids("company", company_elba_ids)
FindCompaniesChunk ==
    /\ pc = "find_companies"
    /\ LET groups == chunked(elba_ids, ChunkSize)
           rows == RowsAsMap(companies, groups[g]) IN
       \E o \in ReadOutcomes :
         /\ Charge(o)
         /\ bitrixLog' = Append(bitrixLog,
               [Attempt("crm.company.list", o) EXCEPT !.group = groups[g],
                    !.found = IF o = "ok" THEN rows ELSE EmptyMap])
         /\ IF Control(o, attempt) = "return"
            THEN /\ attempt' = 1 /\ result' = Merge(result, rows)
                 /\ IF g < Len(groups)
                    THEN g' = g + 1 /\ UNCHANGED <<pc, existing_companies>>
                    ELSE /\ existing_companies' = Merge(result, rows)
                         /\ pc' = "loop" /\ g' = g
            ELSE RetryOrRaise(o) /\ UNCHANGED <<g, result, existing_companies>>
    /\ UNCHANGED <<source, destVars, runs, ufIdx, org_id, fetchVars, counterparties,
                   elba_ids, loopVars, warnings, elbaLog>>

(* ------------------------- main(): the company ------------------------ *)
\* a variant that skips no record
SkippedNever(cp_elba_id) == FALSE

\* `if not cp_elba_id:` the record is skipped with a warning
Skipped(cp_elba_id) == cp_elba_id = ""

\* the head of `for cp in tqdm(counterparties, ...)` down to the company
\* lookup in existing_companies
NextCounterparty ==
    /\ pc = "loop"
    /\ IF i > Len(counterparties)
       THEN pc' = "done" /\ UNCHANGED <<i, company_id, warnings, attempt>>
       ELSE LET cp_elba_id == CpElbaId(counterparties[i]) IN
            IF Skipped(cp_elba_id)
            THEN /\ warnings' = warnings + 1 /\ i' = i + 1
                 /\ UNCHANGED <<pc, company_id, attempt>>
            ELSE IF cp_elba_id \in DOMAIN existing_companies
                    /\ existing_companies[cp_elba_id] # ""
            THEN /\ company_id' = existing_companies[cp_elba_id] /\ pc' = "persons"
                 /\ UNCHANGED <<i, warnings, attempt>>
            ELSE /\ company_id' = "" /\ pc' = "create_company" /\ attempt' = 1
                 /\ UNCHANGED <<i, warnings>>
    /\ UNCHANGED <<source, destVars, runs, ufIdx, org_id, fetchVars, counterparties,
                   findVars, existing_companies, persons, existing_contacts, j,
                   faults, bitrixLog, elbaLog>>

\* create_company(map_company_fields_from_cp(cp)), then
\* existing_companies[cp_elba_id] = company_id
CreateCompany ==
    /\ pc = "create_company"
    /\ LET cp == counterparties[i]
           fields == map_company_fields_from_cp(cp)
           new_id == Str(Len(companies) + 1) IN
       \E o \in WriteOutcomes :
         /\ Charge(o)
         /\ bitrixLog' = Append(bitrixLog,
               [Attempt("crm.company.add", o) EXCEPT !.key = fields.UF_CRM_ELBA_ID,
                    !.id = IF o = "ok" THEN new_id ELSE ""])
         /\ companies' = IF Applied(o) THEN Append(companies, fields) ELSE companies
         /\ IF Control(o, attempt) = "return"
            THEN /\ company_id' = new_id
                 /\ existing_companies' =
                        Merge(existing_companies, [k \in {CpElbaId(cp)} |-> new_id])
                 /\ pc' = "persons" /\ attempt' = 1
            ELSE RetryOrRaise(o) /\ UNCHANGED <<company_id, existing_companies>>
    /\ UNCHANGED <<source, userfields, contacts, runs, ufIdx, org_id, fetchVars,
                   counterparties, findVars, i, persons, existing_contacts, j,
                   warnings, elbaLog>>

(* ------------------------- main(): the persons ------------------------ *)
\* the composite keys of the persons that have an id
ContactElbaIds(cp_elba_id, ps) ==
    FilterNonEmpty([n \in 1..Len(ps) |->
        IF PersonElbaId(ps[n]) # "" THEN Uniq(cp_elba_id, PersonElbaId(ps[n])) ELSE ""])

\* from `if not persons: continue` to the contact lookup
AfterPersons(ps) ==
    IF ps = <<>>
    THEN /\ pc' = "loop" /\ i' = i + 1
         /\ UNCHANGED <<findVars, attempt, existing_companies, existing_contacts, j>>
    ELSE /\ i' = i /\ j' = 1
         /\ StartFind("contacts", ContactElbaIds(CpElbaId(counterparties[i]), ps))

\* the inline list of the card, or the start of the separate request
GetPersons ==
    /\ pc = "persons"
    /\ LET inline == InlinePersons(counterparties[i]) IN
       IF inline # <<>>
       THEN persons' = inline /\ AfterPersons(inline) /\ UNCHANGED fetchVars
       ELSE /\ persons' = <<>> /\ pc' = "contacts_fetch"
            /\ ep' = 1 /\ skip' = 0 /\ items' = <<>>
            /\ UNCHANGED <<findVars, attempt, existing_companies, existing_contacts,
                           i, j>>
    /\ UNCHANGED <<source, destVars, runs, ufIdx, org_id, counterparties, company_id,
                   faults, warnings, bitrixLog, elbaLog>>

\* one GET of fetch_all_paginated under get_elba_contacts_for_counterparty
FetchContactsPage ==
    /\ pc = "contacts_fetch"
    /\ LET cp_elba_id == CpElbaId(counterparties[i])
           r == FetchPage(ContactEndpoints(Src, cp_elba_id)[ep], skip, items,
                          PageLimit, ItemKeysContacts) IN
       /\ elbaLog' = Append(elbaLog, Get("contacts", cp_elba_id, ep, skip, r.exc,
                                    Len(r.items) - Len(items)))
       /\ IF r.more
          THEN /\ items' = r.items /\ skip' = skip + PageLimit
               /\ UNCHANGED <<pc, ep, persons, findVars, attempt, existing_companies,
                              existing_contacts, i, j>>
          ELSE IF Yields(r.items)
          THEN /\ items' = r.items /\ persons' = r.items /\ AfterPersons(r.items)
               /\ UNCHANGED <<ep, skip>>
          ELSE IF ep < NumCandidates
          THEN /\ ep' = ep + 1 /\ skip' = 0 /\ items' = <<>>
               /\ UNCHANGED <<pc, persons, findVars, attempt, existing_companies,
                              existing_contacts, i, j>>
          ELSE /\ items' = r.items /\ persons' = <<>> /\ AfterPersons(<<>>)
               /\ UNCHANGED <<ep, skip>>
    /\ UNCHANGED <<source, destVars, runs, ufIdx, org_id, counterparties, company_id,
                   faults, warnings, bitrixLog>>

\* one chunk of find_existing_by_elba_ids("contact", contact_elba_ids)
FindContactsChunk ==
    /\ pc = "find_contacts"
    /\ LET groups == chunked(elba_ids, ChunkSize)
           rows == RowsAsMap(contacts, groups[g]) IN
       \E o \in ReadOutcomes :
         /\ Charge(o)
         /\ bitrixLog' = Append(bitrixLog,
               [Attempt("crm.contact.list", o) EXCEPT !.group = groups[g],
                    !.found = IF o = "ok" THEN rows ELSE EmptyMap])
         /\ IF Control(o, attempt) = "return"
            THEN /\ attempt' = 1 /\ result' = Merge(result, rows)
                 /\ IF g < Len(groups)
                    THEN g' = g + 1 /\ UNCHANGED <<pc, existing_contacts>>
                    ELSE /\ existing_contacts' = Merge(result, rows)
                         /\ pc' = "person_loop" /\ g' = g
            ELSE RetryOrRaise(o) /\ UNCHANGED <<g, result, existing_contacts>>
    /\ UNCHANGED <<source, destVars, runs, ufIdx, org_id, fetchVars, counterparties,
                   elba_ids, existing_companies, i, company_id, persons, j, warnings,
                   elbaLog>>

\* the head of `for person in persons` down to `if uniq in existing_contacts`
NextPerson ==
    /\ pc = "person_loop"
    /\ IF j > Len(persons)
       THEN pc' = "loop" /\ i' = i + 1 /\ UNCHANGED <<j, attempt>>
       ELSE LET pid == PersonElbaId(persons[j])
                uniq == Uniq(CpElbaId(counterparties[i]), pid) IN
            IF pid = "" \/ uniq \in DOMAIN existing_contacts
            THEN j' = j + 1 /\ UNCHANGED <<pc, i, attempt>>
            ELSE pc' = "create_contact" /\ attempt' = 1 /\ UNCHANGED <<i, j>>
    /\ UNCHANGED <<source, destVars, runs, ufIdx, org_id, fetchVars, counterparties,
                   findVars, existing_companies, company_id, persons,
                   existing_contacts, faults, warnings, bitrixLog, elbaLog>>

\* a variant that leaves the company link out
ContactFieldsUnlinked(person, cp, parent_id) ==
    LET fields == map_contact_fields_from_person(person, cp) IN
    [LAST_NAME |-> fields.LAST_NAME, NAME |-> fields.NAME,
     SECOND_NAME |-> fields.SECOND_NAME, UF_CRM_ELBA_ID |-> fields.UF_CRM_ELBA_ID,
     COMPANY_ID |-> ""]

\* contact_fields with `if company_id: contact_fields["COMPANY_ID"] = company_id`
\* ("" stands for a missing COMPANY_ID)
ContactFields(person, cp, parent_id) ==
    LET fields == map_contact_fields_from_person(person, cp) IN
    [LAST_NAME |-> fields.LAST_NAME, NAME |-> fields.NAME,
     SECOND_NAME |-> fields.SECOND_NAME, UF_CRM_ELBA_ID |-> fields.UF_CRM_ELBA_ID,
     COMPANY_ID |-> parent_id]

\* create_contact(contact_fields); existing_contacts is left as it is
CreateContact ==
    /\ pc = "create_contact"
    /\ LET cp == counterparties[i]
           fields == ContactFields(persons[j], cp, company_id)
           new_id == Str(Len(contacts) + 1) IN
       \E o \in WriteOutcomes :
         /\ Charge(o)
         /\ bitrixLog' = Append(bitrixLog,
               [Attempt("crm.contact.add", o) EXCEPT !.key = fields.UF_CRM_ELBA_ID,
                    !.parent = CpElbaId(cp), !.company_id = fields.COMPANY_ID,
                    !.id = IF o = "ok" THEN new_id ELSE ""])
         /\ contacts' = IF Applied(o) THEN Append(contacts, fields) ELSE contacts
         /\ IF Control(o, attempt) = "return"
            THEN pc' = "person_loop" /\ j' = j + 1 /\ attempt' = 1
            ELSE RetryOrRaise(o) /\ j' = j
    /\ UNCHANGED <<source, userfields, companies, runs, ufIdx, org_id, fetchVars,
                   counterparties, findVars, existing_companies, i, company_id,
                   persons, existing_contacts, warnings, elbaLog>>

(* ------------------------------- passes ------------------------------- *)
\* main() has ended (normally or by an exception); it is started again
\* against the same source and the destination as the pass left it
StartRun ==
    /\ pc \in {"done", "aborted"}
    /\ Len(runs) + 1 < MaxRuns
    /\ runs' = Append(runs, [outcome |-> pc, companies |-> Len(companies),
                             contacts |-> Len(contacts)])
    /\ pc' = "uf_list" /\ attempt' = 1 /\ ufIdx' = 1 /\ org_id' = ""
    /\ ep' = 1 /\ skip' = 0 /\ items' = <<>> /\ counterparties' = <<>>
    /\ elba_ids' = <<>> /\ g' = 1 /\ result' = EmptyMap
    /\ existing_companies' = EmptyMap /\ i' = 1 /\ company_id' = ""
    /\ persons' = <<>> /\ existing_contacts' = EmptyMap /\ j' = 1
    /\ warnings' = 0 /\ bitrixLog' = <<>> /\ elbaLog' = <<>>
    /\ UNCHANGED <<source, destVars, faults>>

Next ==
    \/ UserfieldList
    \/ UserfieldAdd
    \/ GetOrganizationId
    \/ FetchCounterpartiesPage
    \/ FindCompaniesChunk
    \/ NextCounterparty
    \/ CreateCompany
    \/ GetPersons
    \/ FetchContactsPage
    \/ FindContactsChunk
    \/ NextPerson
    \/ CreateContact
    \/ StartRun

Spec == Init /\ [][Next]_vars

(* ------------- get_elba_counterparties on long listings --------------- *)
\* main() at its call of get_elba_counterparties: the custom fields existed,
\* the organization was resolved
InitFetch ==
    /\ source \in FetchSources
    /\ userfields = {UserFields[1], UserFields[2], UserFields[3]}
    /\ companies = <<>> /\ contacts = <<>>
    /\ runs = <<>> /\ faults = 0
    /\ pc = "cps" /\ attempt = 1 /\ ufIdx = 3 /\ org_id = "org1"
    /\ ep = 1 /\ skip = 0 /\ items = <<>> /\ counterparties = <<>>
    /\ elba_ids = <<>> /\ g = 1 /\ result = EmptyMap
    /\ existing_companies = EmptyMap /\ i = 1 /\ company_id = ""
    /\ persons = <<>> /\ existing_contacts = EmptyMap /\ j = 1
    /\ warnings = 0
    /\ bitrixLog = [n \in 1..3 |->
          [method |-> "crm." \o UserFields[n].entity \o ".userfield.list",
           attempt |-> 1, outcome |-> "ok", key |-> UserFields[n].name,
           parent |-> "", company_id |-> "", group |-> <<>>, id |-> "",
           found |-> EmptyMap]]
    /\ elbaLog = <<Get("organizations", "", 0, 0, "", 1)>>

NextFetch == FetchCounterpartiesPage

SpecFetch == InitFetch /\ [][NextFetch]_vars

(* ---------- find_existing_by_elba_ids on long lists of keys ----------- *)
\* company records with the given identity keys, in id order
CompanyTable(keys) == [n \in 1..Len(keys) |-> [UF_CRM_ELBA_ID |-> keys[n]]]

\* Destinations the lookup runs against: no record; a few records at the
\* ends of the chunks, one key on two records, one key nobody asks for; a
\* record for every key, whose id differs from its key.
FindTables ==
    {<<>>,
     CompanyTable(<<"zz", "1", "50", "51", "120", "1">>),
     CompanyTable([n \in 1..120 |-> Str(121 - n)])}

\* main() at its call of get_elba_counterparties, the destination holding
\* company records already
InitFind ==
    /\ source \in FindSources
    /\ userfields = {UserFields[1], UserFields[2], UserFields[3]}
    /\ companies \in FindTables /\ contacts = <<>>
    /\ runs = <<>> /\ faults = 0
    /\ pc = "cps" /\ attempt = 1 /\ ufIdx = 3 /\ org_id = "org1"
    /\ ep = 1 /\ skip = 0 /\ items = <<>> /\ counterparties = <<>>
    /\ elba_ids = <<>> /\ g = 1 /\ result = EmptyMap
    /\ existing_companies = EmptyMap /\ i = 1 /\ company_id = ""
    /\ persons = <<>> /\ existing_contacts = EmptyMap /\ j = 1
    /\ warnings = 0
    /\ bitrixLog = <<>>
    /\ elbaLog = <<Get("organizations", "", 0, 0, "", 1)>>

NextFind ==
    \/ FetchCounterpartiesPage
    \/ FindCompaniesChunk

SpecFind == InitFind /\ [][NextFind]_vars

(* ----------------- main() on ids of any characters -------------------- *)
\* passes of main() in which no destination call fails, from a destination
\* without records and without the custom fields
InitIds ==
    /\ source \in KeySources
    /\ userfields = {}
    /\ companies = <<>> /\ contacts = <<>>
    /\ runs = <<>> /\ faults = MaxFaultyCalls
    /\ Entry

SpecIds == InitIds /\ [][Next]_vars

(* ---------------- the person loop on names of any shape --------------- *)
\* an attempt of an earlier call of the pass that returned
Returned(method, key, group, found) ==
    [method |-> method, attempt |-> 1, outcome |-> "ok", key |-> key,
     parent |-> "", company_id |-> "", group |-> group, id |-> "", found |-> found]

\* main() at the head of `for person in persons` for the only counterparty
\* of the listing: its company was found at the destination, no contact was
\* found; no destination call fails from here on
InitNames ==
    /\ source \in NameSources
    /\ userfields = {UserFields[1], UserFields[2], UserFields[3]}
    /\ companies = <<map_company_fields_from_cp(Src.counterparties[1].items[1])>>
    /\ contacts = <<>>
    /\ runs = <<>> /\ faults = MaxFaultyCalls
    /\ pc = "person_loop" /\ attempt = 1 /\ ufIdx = 3 /\ org_id = "org1"
    /\ ep = 1 /\ skip = 0 /\ items = Src.counterparties[1].items
    /\ counterparties = Src.counterparties[1].items
    /\ elba_ids = <<"a:1">> /\ g = 1 /\ result = EmptyMap
    /\ existing_companies = [k \in {"a"} |-> "1"] /\ i = 1 /\ company_id = "1"
    /\ persons = InlinePersons(Src.counterparties[1].items[1])
    /\ existing_contacts = EmptyMap /\ j = 1
    /\ warnings = 0
    /\ bitrixLog =
          [n \in 1..3 |-> Returned("crm." \o UserFields[n].entity \o ".userfield.list",
                                   UserFields[n].name, <<>>, EmptyMap)]
          \o <<Returned("crm.company.list", "", <<"a">>, [k \in {"a"} |-> "1"]),
               Returned("crm.contact.list", "", <<"a:1">>, EmptyMap)>>
    /\ elbaLog = <<Get("organizations", "", 0, 0, "", 1),
                   Get("counterparties", "", 1, 0, "", 1)>>

NextNames ==
    \/ NextPerson
    \/ CreateContact

SpecNames == InitNames /\ [][NextNames]_vars

(* ====================== properties of the program ===================== *)
\* the attempts of this pass with one of the given methods
Entries(methods) == {n \in 1..Len(bitrixLog) : bitrixLog[n].method \in methods}
RecordAdds == {"crm.company.add", "crm.contact.add"}
RecordLists == {"crm.company.list", "crm.contact.list"}
FieldAdds == {"crm.contact.userfield.add", "crm.company.userfield.add"}
FieldLists == {"crm.contact.userfield.list", "crm.company.userfield.list"}

\* how many records of a table carry the key
CountKey(table, key) ==
    Cardinality({n \in 1..Len(table) : table[n].UF_CRM_ELBA_ID = key})

\* fetch_all_paginated as a whole: the items it returns
RECURSIVE fetch_all_paginated(_, _, _, _)
fetch_all_paginated(e, offset, acc, item_keys) ==
    LET r == FetchPage(e, offset, acc, PageLimit, item_keys) IN
    IF r.more THEN fetch_all_paginated(e, offset + PageLimit, r.items, item_keys)
    ELSE r.items

\* get_elba_contacts_for_counterparty as a whole
get_elba_contacts_for_counterparty(src, cp_elba_id) ==
    LET got == [n \in 1..NumCandidates |->
                  fetch_all_paginated(ContactEndpoints(src, cp_elba_id)[n], 0, <<>>,
                                      ItemKeysContacts)]
        hits == {n \in 1..NumCandidates : Yields(got[n])} IN
    IF hits = {} THEN <<>>
    ELSE got[CHOOSE n \in hits : \A m \in hits : n <= m]

\* the persons main() works on for a counterparty
PersonsOf(src, cp) ==
    IF InlinePersons(cp) # <<>> THEN InlinePersons(cp)
    ELSE get_elba_contacts_for_counterparty(src, CpElbaId(cp))

\* C1: Idempotence.  After a first pass that ran to completion from an empty
\* destination, the second pass over the same source issues no
\* crm.company.add and no crm.contact.add, and the destination holds as many
\* records as after the first pass; stated for the behaviours in which no
\* destination call has failed.
C1_Idempotence ==
    (Len(runs) = 1 /\ runs[1].outcome = "done" /\ faults = 0)
        => /\ Entries(RecordAdds) = {}
           /\ Len(companies) = runs[1].companies
           /\ Len(contacts) = runs[1].contacts

\* C2: In every reachable state the destination holds at most one company
\* record per company identity key.
C2_OneCompanyPerKey ==
    \A m, n \in 1..Len(companies) :
        companies[m].UF_CRM_ELBA_ID = companies[n].UF_CRM_ELBA_ID => m = n

\* C3: In every reachable state the destination holds at most one contact
\* record per composite identity key; stated for the behaviours in which no
\* destination call has failed, where a repeated person id is the only way
\* to meet a key twice.
C3_OneContactPerKey ==
    faults = 0 =>
        \A m, n \in 1..Len(contacts) :
            contacts[m].UF_CRM_ELBA_ID = contacts[n].UF_CRM_ELBA_ID => m = n

\* C4: Completeness.  When a pass completes normally, every fetched
\* counterparty with an external id has exactly one company record under that
\* id, and every person of it with an external id has exactly one contact
\* record under <counterparty id>:<person id>; stated for the behaviours in
\* which no destination call has failed.
C4_Completeness ==
    (pc = "done" /\ faults = 0) =>
        \A n \in 1..Len(counterparties) :
            LET cp == counterparties[n]
                ps == PersonsOf(Src, cp) IN
            CpElbaId(cp) # "" =>
                /\ CountKey(companies, CpElbaId(cp)) = 1
                /\ \A k \in 1..Len(ps) :
                      PersonElbaId(ps[k]) # "" =>
                          CountKey(contacts, Uniq(CpElbaId(cp), PersonElbaId(ps[k]))) = 1

\* C5: Parent linkage.  Every crm.contact.add carries as COMPANY_ID the id of
\* a destination company whose identity key is the parent counterparty's
\* external id, and that id was returned earlier in the pass by the company
\* lookup or by a successful crm.company.add for that counterparty.
C5_ParentLinkage ==
    \A n \in Entries({"crm.contact.add"}) :
        LET e == bitrixLog[n] IN
        /\ e.company_id # ""
        /\ \E m \in 1..Len(companies) :
              Str(m) = e.company_id /\ companies[m].UF_CRM_ELBA_ID = e.parent
        /\ \E k \in 1..(n - 1) :
              LET b == bitrixLog[k] IN
              \/ /\ b.method = "crm.company.list" /\ b.outcome = "ok"
                 /\ e.parent \in DOMAIN b.found /\ b.found[e.parent] = e.company_id
              \/ /\ b.method = "crm.company.add" /\ b.outcome = "ok"
                 /\ b.key = e.parent /\ b.id = e.company_id

\* a contact was created under a company created earlier in the same pass
C5_Witness ==
    \E n \in Entries({"crm.contact.add"}) :
        /\ bitrixLog[n].outcome = "ok"
        /\ \E k \in 1..(n - 1) :
              /\ bitrixLog[k].method = "crm.company.add"
              /\ bitrixLog[k].id = bitrixLog[n].company_id

\* a GET that ended in an error status or a transport error
ReadFailed(e) == e.exc \in {"HTTPError", "ConnectionError"}

\* C6 as stated: whichever page of a candidate URL fails, the request is not
\* repeated, the pass is not aborted, none of that URL's items become the
\* listing, and the next candidate is tried (after the last one the listing
\* is empty).
C6_FailedReadSkipsEndpoint ==
    \A n \in 1..Len(elbaLog) :
        LET e == elbaLog[n] IN
        (e.listing = "counterparties" /\ ReadFailed(e)) =>
            /\ pc # "aborted"
            /\ n < Len(elbaLog) =>
                  ~(elbaLog[n + 1].listing = "counterparties" /\ elbaLog[n + 1].ep = e.ep)
            /\ ~(pc # "cps" /\ counterparties # <<>>
                 /\ \A m \in (n + 1)..Len(elbaLog) : elbaLog[m].listing # "counterparties")
            /\ IF e.ep < NumCandidates
               THEN IF n < Len(elbaLog)
                    THEN /\ elbaLog[n + 1].listing = "counterparties"
                         /\ elbaLog[n + 1].ep = e.ep + 1 /\ elbaLog[n + 1].skip = 0
                    ELSE pc = "cps" /\ ep = e.ep + 1 /\ skip = 0
               ELSE pc = "done" /\ counterparties = <<>>

\* C6, amended: a failed GET is never repeated and never aborts the pass.
\* When it was the first page of its candidate URL, that URL is skipped and
\* the next candidate is tried (after the last one the listing is empty);
\* when it was a later page, the pages already read from that URL are the
\* listing and no further candidate is tried.  When no request yields an
\* item the listing is empty and the pass ends.
C6_FailedReadEndsPagination ==
    /\ \A n \in 1..Len(elbaLog) :
        LET e == elbaLog[n] IN
        (e.listing = "counterparties" /\ ReadFailed(e)) =>
            /\ pc # "aborted"
            /\ n < Len(elbaLog) =>
                  ~(elbaLog[n + 1].listing = "counterparties" /\ elbaLog[n + 1].ep = e.ep)
            /\ e.skip = 0 =>
                  IF e.ep < NumCandidates
                  THEN IF n < Len(elbaLog)
                       THEN /\ elbaLog[n + 1].listing = "counterparties"
                            /\ elbaLog[n + 1].ep = e.ep + 1 /\ elbaLog[n + 1].skip = 0
                       ELSE pc = "cps" /\ ep = e.ep + 1 /\ skip = 0 /\ items = <<>>
                  ELSE pc = "done" /\ counterparties = <<>>
            /\ e.skip > 0 =>
                  /\ pc # "cps"
                  /\ \A m \in (n + 1)..Len(elbaLog) : elbaLog[m].listing # "counterparties"
                  /\ counterparties = SubSeq(Src.counterparties[e.ep].items, 1, e.skip)
    /\ (pc # "cps" /\ \A n \in 1..Len(elbaLog) :
                         elbaLog[n].listing = "counterparties" => elbaLog[n].got = 0)
          => pc = "done" /\ counterparties = <<>>

\* a request for a later page failed and the pages before it are the listing
C6_Witness ==
    \E n \in 1..Len(elbaLog) :
        /\ elbaLog[n].listing = "counterparties" /\ ReadFailed(elbaLog[n])
        /\ elbaLog[n].skip > 0 /\ pc # "cps" /\ Len(counterparties) = elbaLog[n].skip

\* C7: an attempt answered with an error payload, under any HTTP status, is
\* the only attempt of its call and the last destination request of the
\* pass, which is aborted.
C7_ErrorPayloadNotRetried ==
    \A n \in 1..Len(bitrixLog) :
        bitrixLog[n].outcome \in {"error_200", "error_400"} =>
            /\ bitrixLog[n].attempt = 1
            /\ n = Len(bitrixLog)
            /\ pc = "aborted"

\* the bitrix_call that main() is in
CurrentMethod ==
    CASE pc = "uf_list" -> "crm." \o UserFields[ufIdx].entity \o ".userfield.list"
      [] pc = "uf_add" -> "crm." \o UserFields[ufIdx].entity \o ".userfield.add"
      [] pc = "find_companies" -> "crm.company.list"
      [] pc = "create_company" -> "crm.company.add"
      [] pc = "find_contacts" -> "crm.contact.list"
      [] pc = "create_contact" -> "crm.contact.add"
      [] OTHER -> ""

SameCall(a, b) ==
    /\ a.method = b.method /\ a.key = b.key /\ a.group = b.group
    /\ a.parent = b.parent /\ a.company_id = b.company_id

TransportFailures == {"ConnectionError", "ReadTimeout"}

\* C8: Bounded retry.  A call makes at most 3 attempts, numbered in a row; a
\* transport failure on attempt 1 or 2 is followed by the next attempt of
\* the same call; a success ends the call; a transport failure on attempt 3
\* is the last destination request of the pass, which is aborted.
C8_BoundedRetry ==
    \A n \in 1..Len(bitrixLog) :
        LET e == bitrixLog[n] IN
        /\ e.attempt \in 1..3
        /\ e.attempt > 1 =>
              /\ n > 1 /\ SameCall(bitrixLog[n - 1], e)
              /\ bitrixLog[n - 1].attempt = e.attempt - 1
              /\ bitrixLog[n - 1].outcome # "ok"
        /\ (e.outcome \in TransportFailures /\ e.attempt < 3) =>
              IF n < Len(bitrixLog)
              THEN SameCall(bitrixLog[n + 1], e) /\ bitrixLog[n + 1].attempt = e.attempt + 1
              ELSE CurrentMethod = e.method /\ attempt = e.attempt + 1
        /\ e.outcome = "ok" =>
              IF n < Len(bitrixLog) THEN bitrixLog[n + 1].attempt = 1
              ELSE attempt = 1
        /\ (e.outcome \in TransportFailures /\ e.attempt = 3) =>
              n = Len(bitrixLog) /\ pc = "aborted"

\* a creation failed three times in a row and ended the pass
C8_Witness ==
    /\ pc = "aborted" /\ Len(bitrixLog) >= 3
    /\ Last(bitrixLog).method = "crm.company.add"
    /\ Last(bitrixLog).attempt = 3
    /\ \A n \in (Len(bitrixLog) - 2)..Len(bitrixLog) :
          bitrixLog[n].outcome \in TransportFailures

\* the record counts of the destination when the current pass began
StartCompanies == IF runs = <<>> THEN 0 ELSE Last(runs).companies
StartContacts == IF runs = <<>> THEN 0 ELSE Last(runs).contacts

\* the source has no usable answer to GET /organizations
OrgUnresolvable ==
    \/ Src.organizations.failKind # ""
    \/ Src.organizations.key \notin {"organizations", "items"}
    \/ Src.organizations.orgs = <<>>
OrgAsked == \E n \in 1..Len(elbaLog) : elbaLog[n].listing = "organizations"

\* C9 as stated: when the organization cannot be resolved the pass is
\* aborted and the destination has carried out no write of this pass, field
\* definitions included.
C9_NoWriteBeforeOrgAbort ==
    (OrgAsked /\ OrgUnresolvable) =>
        /\ pc = "aborted"
        /\ \A n \in Entries(RecordAdds \cup FieldAdds) :
              bitrixLog[n].outcome \notin {"ok", "ReadTimeout"}

\* C9, amended: when the organization cannot be resolved the pass is aborted
\* right after GET /organizations, and up to then it has sent the
\* destination nothing but the checks and creations of the custom fields: no
\* record was looked up or created.
C9_NoRecordBeforeOrgAbort ==
    (OrgAsked /\ OrgUnresolvable) =>
        /\ pc = "aborted"
        /\ Len(elbaLog) = 1
        /\ \A n \in 1..Len(bitrixLog) : bitrixLog[n].method \in FieldLists \cup FieldAdds
        /\ Len(companies) = StartCompanies
        /\ Len(contacts) = StartContacts

\* the organization could not be resolved after a custom field was created
C9_Witness ==
    /\ OrgAsked /\ OrgUnresolvable /\ pc = "aborted"
    /\ \E n \in Entries(FieldAdds) : bitrixLog[n].outcome = "ok"

\* field number k was checked by a userfield.list that returned
FieldChecked(k) ==
    \E n \in 1..Len(bitrixLog) :
        /\ bitrixLog[n].method = "crm." \o UserFields[k].entity \o ".userfield.list"
        /\ bitrixLog[n].key = UserFields[k].name
        /\ bitrixLog[n].outcome = "ok"

\* C10: Schema-ready gate.  Once the pass has sent any source request or any
\* record lookup or creation, each of the three custom fields has been
\* checked and exists, and every field request precedes every record
\* request; and when a field check or creation fails for good, the pass is
\* over with no source request sent and no record created.
C10_SchemaReadyGate ==
    /\ (elbaLog # <<>> \/ Entries(RecordLists \cup RecordAdds) # {}) =>
          /\ \A k \in 1..3 : FieldChecked(k) /\ UserFields[k] \in userfields
          /\ \A a \in Entries(FieldLists \cup FieldAdds) :
                \A b \in Entries(RecordLists \cup RecordAdds) : a < b
    /\ (pc = "aborted" /\ bitrixLog # <<>>
        /\ Last(bitrixLog).method \in FieldLists \cup FieldAdds
        /\ Last(bitrixLog).outcome # "ok") =>
          /\ elbaLog = <<>>
          /\ Entries(RecordLists \cup RecordAdds) = {}
          /\ Len(companies) = StartCompanies
          /\ Len(contacts) = StartContacts

\* the creation of a custom field failed for good and ended the pass
C10_Witness ==
    /\ pc = "aborted" /\ bitrixLog # <<>>
    /\ Last(bitrixLog).method \in FieldAdds
    /\ Last(bitrixLog).outcome # "ok"

(* ------------------------ endpoint fallback order --------------------- *)
\* the first candidate URL from which fetch_all_paginated returns an item
\* (the last candidate when none does)
FirstYielding(endpoints, item_keys) ==
    LET hits == {n \in 1..NumCandidates :
                    fetch_all_paginated(endpoints[n], 0, <<>>, item_keys) # <<>>} IN
    IF hits = {} THEN NumCandidates
    ELSE CHOOSE n \in hits : \A m \in hits : n <= m

\* the candidate URLs of a listing that have received a request in this pass
Probed(listing, cp_elba_id) ==
    {elbaLog[n].ep : n \in {m \in 1..Len(elbaLog) :
        elbaLog[m].listing = listing /\ elbaLog[m].cp = cp_elba_id}}

\* the counterparties whose contact listing was requested in this pass
CpsFetched == {elbaLog[n].cp : n \in {m \in 1..Len(elbaLog) : elbaLog[m].listing = "contacts"}}

\* C11: Endpoint fallback order.  The candidate URLs of a listing are
\* requested in list order, a candidate is left only after its first page
\* gave nothing, and no candidate after the first one that yields an item is
\* requested: once the listing has been fetched, the candidates requested
\* are exactly 1..k, k being the first candidate that yields items (all four
\* when none does).  This holds for the counterparty listing and for the
\* contact listing of each counterparty.
C11_FallbackOrder ==
    /\ \A n \in 1..Len(elbaLog) :
          LET e == elbaLog[n] IN
          e.listing \in {"counterparties", "contacts"} =>
             IF n > 1 /\ elbaLog[n - 1].listing = e.listing /\ elbaLog[n - 1].cp = e.cp
             THEN LET d == elbaLog[n - 1] IN
                  \/ e.ep = d.ep /\ e.skip = d.skip + PageLimit
                  \/ e.ep = d.ep + 1 /\ e.skip = 0 /\ d.skip = 0 /\ d.got = 0
             ELSE e.ep = 1 /\ e.skip = 0
    /\ LET k == FirstYielding(Src.counterparties, ItemKeysCounterparties)
           probed == Probed("counterparties", "") IN
          /\ probed \subseteq 1..k
          /\ (pc # "cps" /\ probed # {}) => probed = 1..k
    /\ \A c \in CpsFetched :
          LET k == FirstYielding(ContactEndpoints(Src, c), ItemKeysContacts)
              probed == Probed("contacts", c) IN
          /\ probed \subseteq 1..k
          /\ (pc # "contacts_fetch" \/ CpElbaId(counterparties[i]) # c)
                => probed = 1..k

\* only the third candidate URL of the counterparty listing yields items:
\* the first three were requested, the fourth was not
C11_Witness ==
    /\ pc # "cps" /\ counterparties # <<>>
    /\ FirstYielding(Src.counterparties, ItemKeysCounterparties) = 3
    /\ Probed("counterparties", "") = {1, 2, 3}

(* ------------------------------ pagination ---------------------------- *)
\* a candidate URL that answers every page request with the slice asked for,
\* under a key get_elba_counterparties knows
Paged(e) == e.failAt = 0 /\ e.key \in {"items", "counterparties", "contractors"}

\* the page requests candidate URL n of the counterparty listing has
\* received, in the order they were sent
Requests(n) ==
    LET AtCandidate(x) == x.listing = "counterparties" /\ x.ep = n IN
    SelectSeq(elbaLog, AtCandidate)

\* C12: Pagination termination.  Against a candidate URL that holds N items
\* and honours skip and limit, the page requests carry the offsets 0, 100,
\* 200, ... in this order, page k returns min(100, N - 100 (k - 1)) items,
\* the requests end right after the first page with fewer than 100 items,
\* which makes N div 100 + 1 of them, and the N items are returned in the
\* source's order, none repeated and none missing.
C12_PaginationTerminates ==
    \A n \in 1..NumCandidates :
        LET e == Src.counterparties[n]
            N == Len(e.items)
            reqs == Requests(n) IN
        Paged(e) =>
            /\ \A k \in 1..Len(reqs) :
                  /\ reqs[k].skip = 100 * (k - 1)
                  /\ reqs[k].exc = ""
                  /\ reqs[k].got = Min(100, N - 100 * (k - 1))
                  /\ k < Len(reqs) => reqs[k].got = 100
            /\ Len(reqs) <= (N \div 100) + 1
            /\ (reqs # <<>> /\ (pc # "cps" \/ ep # n)) =>
                  /\ Len(reqs) = (N \div 100) + 1
                  /\ Last(reqs).got < 100
                  /\ N > 0 => pc # "cps" /\ counterparties = e.items
            /\ fetch_all_paginated(e, 0, <<>>, ItemKeysCounterparties) = e.items

\* a listing of 250 items was fetched with three requests that returned
\* 100, 100 and 50 items
C12_Witness ==
    /\ pc # "cps" /\ Len(counterparties) = 250
    /\ Len(Requests(ep)) = 3
    /\ Requests(ep)[1].got = 100 /\ Requests(ep)[2].got = 100 /\ Requests(ep)[3].got = 50
    /\ Requests(ep)[3].skip = 200

(* --------------------------- skip on missing id ----------------------- *)
\* the counterparties without an external id that the loop has gone past
IdLessDone ==
    {n \in 1..Len(counterparties) : n < i /\ CpElbaId(counterparties[n]) = ""}

\* the composite keys the persons of the id-less counterparties would get
IdLessContactKeys ==
    UNION {{Uniq("", PersonElbaId(PersonsOf(Src, counterparties[n])[k])) :
                k \in 1..Len(PersonsOf(Src, counterparties[n]))} :
           n \in {m \in 1..Len(counterparties) : CpElbaId(counterparties[m]) = ""}}

\* C13: Skip-on-missing-id.  For a fetched counterparty without an external
\* id no destination request is made (no company lookup key, no company
\* creation, no contact lookup, no contact creation) and no contact listing
\* is requested from the source; one skip warning is logged for each such
\* record the loop has gone past; and the loop goes on: a pass that ends
\* normally has gone past every fetched record.
C13_SkipOnMissingId ==
    /\ LET keys == IdLessContactKeys IN
       \A n \in 1..Len(bitrixLog) :
          LET e == bitrixLog[n] IN
          /\ e.method = "crm.company.add" => e.key # ""
          /\ e.method = "crm.contact.add" => e.parent # "" /\ e.key \notin keys
          /\ e.method \in RecordLists =>
                \A x \in 1..Len(e.group) : e.group[x] # "" /\ e.group[x] \notin keys
    /\ \A n \in 1..Len(elbaLog) : elbaLog[n].listing = "contacts" => elbaLog[n].cp # ""
    /\ \A n \in 1..Len(companies) : companies[n].UF_CRM_ELBA_ID # ""
    /\ warnings = Cardinality(IdLessDone)
    /\ (pc = "done" /\ counterparties # <<>>) => i = Len(counterparties) + 1

\* a record without an id was skipped with one warning, and the company of
\* the record after it was created
C13_Witness ==
    /\ warnings = 1 /\ IdLessDone # {}
    /\ \E n \in Entries({"crm.company.add"}) :
          /\ bitrixLog[n].outcome = "ok"
          /\ \E m \in IdLessDone : CpElbaId(counterparties[m + 1]) = bitrixLog[n].key

(* ------------------------------ resumability -------------------------- *)
\* the pass before this one was aborted after it had created a record
ResumedAfterAbort ==
    /\ runs # <<>> /\ Last(runs).outcome = "aborted"
    /\ Last(runs).companies + Last(runs).contacts > 0

\* the identity keys of the records the destination held when this pass began
KeysAtStart(table, count) == {table[n].UF_CRM_ELBA_ID : n \in 1..count}

\* C14: Resumability.  In a pass that follows an aborted pass which had
\* created records, no creation carries an identity key of a record that
\* existed when the pass began, and when the pass ends normally every
\* fetched counterparty with an id has exactly one company record and every
\* person of it with an id exactly one contact record.
C14_Resumability ==
    ResumedAfterAbort =>
        /\ \A n \in Entries({"crm.company.add"}) :
              bitrixLog[n].key \notin KeysAtStart(companies, StartCompanies)
        /\ \A n \in Entries({"crm.contact.add"}) :
              bitrixLog[n].key \notin KeysAtStart(contacts, StartContacts)
        /\ pc = "done" =>
              \A n \in 1..Len(counterparties) :
                  LET cp == counterparties[n]
                      ps == PersonsOf(Src, cp) IN
                  CpElbaId(cp) # "" =>
                      /\ CountKey(companies, CpElbaId(cp)) = 1
                      /\ \A k \in 1..Len(ps) :
                            PersonElbaId(ps[k]) # "" =>
                                CountKey(contacts, Uniq(CpElbaId(cp), PersonElbaId(ps[k]))) = 1

(* ------------------------- lookup of existing records ----------------- *)
\* the crm.company.list calls of this pass (first attempts), in order
ListCalls ==
    LET FirstAttempt(x) == x.method = "crm.company.list" /\ x.attempt = 1 IN
    SelectSeq(bitrixLog, FirstAttempt)

RECURSIVE Flatten(_)
Flatten(seqs) == IF seqs = <<>> THEN <<>> ELSE Head(seqs) \o Flatten(Tail(seqs))

\* the keys find_existing_by_elba_ids("company", ...) is called with
RequestedKeys == CompanyElbaIds(counterparties)

\* C15: find_existing_by_elba_ids splits its keys into consecutive slices of
\* at most 50 that together are the key list, every key once; it makes one
\* crm.company.list call per slice, with that slice as filter; the mapping
\* it returns has as domain exactly the requested keys that some destination
\* record carries, each mapped to the id of a record with that key; keys no
\* record carries are not in the mapping and raise nothing; for an empty key
\* list no destination call is made and the mapping is empty.
C15_LookupInChunks ==
    /\ \A k \in 1..Len(ListCalls) :
          /\ ListCalls[k].group =
                SubSeq(RequestedKeys, 50 * (k - 1) + 1, Min(50 * k, Len(RequestedKeys)))
          /\ Len(ListCalls[k].group) \in 1..50
    /\ Len(ListCalls) * 50 < Len(RequestedKeys) + 50
    /\ pc = "loop" =>
          /\ Flatten([k \in 1..Len(ListCalls) |-> ListCalls[k].group]) = RequestedKeys
          /\ DOMAIN existing_companies =
                {RequestedKeys[x] : x \in 1..Len(RequestedKeys)}
                   \cap {companies[n].UF_CRM_ELBA_ID : n \in 1..Len(companies)}
          /\ \A key \in DOMAIN existing_companies :
                \E n \in 1..Len(companies) :
                    Str(n) = existing_companies[key] /\ companies[n].UF_CRM_ELBA_ID = key
          /\ RequestedKeys = <<>> => bitrixLog = <<>> /\ existing_companies = EmptyMap

\* 120 keys were looked up in three calls of 50, 50 and 20 keys, and the
\* mapping holds some of the keys and not others
C15_Witness ==
    /\ pc = "loop" /\ Len(RequestedKeys) = 120 /\ Len(ListCalls) = 3
    /\ Len(ListCalls[3].group) = 20
    /\ "51" \in DOMAIN existing_companies /\ "52" \notin DOMAIN existing_companies

(* --------------------------- identity keys ---------------------------- *)
\* C16: Identity-key uniqueness.  Two fetched counterparties with different
\* external ids get different company identity keys, and a person of the one
\* and a person of the other get different composite keys, at the lookup
\* and in the record written, whatever their ids are.
C16_KeysUnique ==
    \A m, n \in 1..Len(counterparties) :
        LET c == counterparties[m]
            d == counterparties[n] IN
        (CpElbaId(c) # "" /\ CpElbaId(d) # "" /\ CpElbaId(c) # CpElbaId(d)) =>
            /\ map_company_fields_from_cp(c).UF_CRM_ELBA_ID
                  # map_company_fields_from_cp(d).UF_CRM_ELBA_ID
            /\ \A x \in 1..Len(PersonsOf(Src, c)) : \A y \in 1..Len(PersonsOf(Src, d)) :
                  LET p == PersonsOf(Src, c)[x]
                      q == PersonsOf(Src, d)[y] IN
                  (PersonElbaId(p) # "" /\ PersonElbaId(q) # "") =>
                      /\ Uniq(CpElbaId(c), PersonElbaId(p)) # Uniq(CpElbaId(d), PersonElbaId(q))
                      /\ map_contact_fields_from_person(p, c).UF_CRM_ELBA_ID
                            # map_contact_fields_from_person(q, d).UF_CRM_ELBA_ID

(* --------------------------- name decomposition ----------------------- *)
\* the places of a text where a word begins: a character that is not
\* whitespace, at the start of the text or after whitespace
WordStarts(text) ==
    {a \in 1..Len(text) :
        text[a] \notin Whitespace /\ (a = 1 \/ text[a - 1] \in Whitespace)}

\* the k-th whitespace-delimited word of a text, <<>> when it has fewer
Word(text, k) ==
    IF Cardinality(WordStarts(text)) < k THEN <<>>
    ELSE LET a == CHOOSE x \in WordStarts(text) :
                     Cardinality({y \in WordStarts(text) : y < x}) = k - 1
             b == CHOOSE x \in a..Len(text) :
                     /\ \A y \in a..x : text[y] \notin Whitespace
                     /\ x = Len(text) \/ text[x + 1] \in Whitespace
         IN SubSeq(text, a, b)

\* C17: Name decomposition.  extract_name_parts returns as last, first and
\* middle name the first, second and third whitespace-delimited word of the
\* full name, the empty string for a word the name does not have, whatever
\* follows the third word left out; it has a value for every name, the empty
\* one included; and these three are the name fields of the contact created
\* for the person.
C17_NameDecomposition ==
    /\ extract_name_parts(<<>>) = <<<<>>, <<>>, <<>>>>
    /\ \A k \in 1..Len(persons) :
          LET t == persons[k].fullName IN
          extract_name_parts(t) = <<Word(t, 1), Word(t, 2), Word(t, 3)>>
    /\ \A n \in 1..Len(contacts) :
          \E k \in 1..Len(persons) :
              LET t == FullName(persons[k]) IN
              /\ contacts[n].LAST_NAME = Word(t, 1)
              /\ contacts[n].NAME = Word(t, 2)
              /\ contacts[n].SECOND_NAME = Word(t, 3)

\* a contact was created from a name of four words, with tabs and spaces
\* between them
C17_Witness ==
    /\ contacts # <<>> /\ persons # <<>>
    /\ Cardinality(WordStarts(persons[1].fullName)) = 4
    /\ \E a \in 1..Len(persons[1].fullName) : persons[1].fullName[a] = "\t"
    /\ contacts[1].LAST_NAME = <<"x">> /\ contacts[1].NAME = <<"x">>
    /\ contacts[1].SECOND_NAME = <<"x">>

(* ----------------------------- bare arrays ---------------------------- *)
\* C18: a page whose JSON body is a bare array is taken as that page's
\* items: the request ends without an exception, yields the items of the
\* array, and fetch_all_paginated goes on exactly as if the same items had
\* come under the key "items".
C18_BareArrayAccepted ==
    \A n \in 1..Len(elbaLog) :
        LET r == elbaLog[n] IN
        (r.listing = "counterparties" /\ Src.counterparties[r.ep].key = "") =>
            LET e == Src.counterparties[r.ep]
                underKey == [e EXCEPT !.key = "items"] IN
            /\ r.exc = ""
            /\ r.got = Len(GetPage(e, r.skip, PageLimit).list)
            /\ FetchPage(e, r.skip, <<>>, PageLimit, ItemKeysCounterparties)
                  = FetchPage(underKey, r.skip, <<>>, PageLimit, ItemKeysCounterparties)

(* ------------------------ written and lookup keys --------------------- *)
\* the key is in the filter of an earlier lookup of the pass
LookedUp(method, key, before) ==
    \E k \in 1..(before - 1) :
        /\ bitrixLog[k].method = method
        /\ \E x \in 1..Len(bitrixLog[k].group) : bitrixLog[k].group[x] = key

\* C19: the identity key written into a record the pass creates is the key
\* under which the pass looked the record up: a company is written under the
\* counterparty's external id, a contact under <counterparty id>:<person id>
\* with the person id taken as at the lookup (id, else personId).
C19_WrittenKeyIsLookupKey ==
    /\ \A n \in Entries({"crm.company.add"}) :
          LookedUp("crm.company.list", bitrixLog[n].key, n)
    /\ \A n \in Entries({"crm.contact.add"}) :
          LookedUp("crm.contact.list", bitrixLog[n].key, n)
    /\ pc = "create_company" =>
          map_company_fields_from_cp(counterparties[i]).UF_CRM_ELBA_ID
              = CpElbaId(counterparties[i])
    /\ pc = "create_contact" =>
          map_contact_fields_from_person(persons[j], counterparties[i]).UF_CRM_ELBA_ID
              = Uniq(CpElbaId(counterparties[i]), PersonElbaId(persons[j]))

(* -------------------------- creation and retry ------------------------ *)
\* the invocations of a method in this pass: its first attempts
Invocations(method) == {n \in Entries({method}) : bitrixLog[n].attempt = 1}

\* C20: one create_company or create_contact invocation leaves at most one
\* new record at the destination, retries included: the records the pass
\* has added are no more than the creations it has invoked.
C20_OneRecordPerCreate ==
    /\ Len(companies) - StartCompanies <= Cardinality(Invocations("crm.company.add"))
    /\ Len(contacts) - StartContacts <= Cardinality(Invocations("crm.contact.add"))

====
